---- MODULE Spec2Model ----
(***************************************************************************)
(* A model of the SMIV back end of smaug's nnet_lib:                       *)
(*   - core/smiv/convolution_simd.c : the SIMD 2D convolution kernel, its  *)
(*     shift registers, its multiply-accumulate datapath and the merge of  *)
(*     the two pipes' partial sums;                                        *)
(*   - arch/smiv.c : the per-layer handlers and the nnet_fwd layer loop    *)
(*     that ping-pongs between the activations and the result buffer;      *)
(*   - core/scheduler.h : runNetwork over the operator graph.              *)
(* Floating point values are modelled as exact integers.                   *)
(***************************************************************************)
EXTENDS Integers, Sequences, FiniteSets, TLC

(***************************************************************************)
(* Program constants.                                                      *)
(***************************************************************************)
\* v8fp_t holds eight floats (the eight-lane literals of the source).
VECTOR_SIZE == 8

\* A pipe consumes DATAPATH_WIDTH lanes per multiply-accumulate; the weights
\* buffer holds one DATAPATH_WIDTH half per pipe.
DATAPATH_WIDTH == 4

\* A shift register is SR_SIZE = SHIFT_REG_SIZE / VECTOR_SIZE = 2 vectors.
SHIFT_REG_SIZE == 16

SR_SIZE == SHIFT_REG_SIZE \div VECTOR_SIZE

(***************************************************************************)
(* Bounds of the model.                                                    *)
(***************************************************************************)
\* Largest logical input width (three vector fetches per row at 17).
MaxWidth == 17

\* Largest number of input rows beyond the kernel height (a_height ranges
\* over k_width .. k_width + MaxExtraRows).
MaxExtraRows == 2

\* Largest field stride of a layer descriptor (strides range over 0 .. MaxStride).
MaxStride == 4

\* Cap of the row counter out_row (only a run whose row loop does not end
\* reaches it).
MaxOutRow == 4

\* Largest shift amount handed to the shift functions on their own.
MaxShamt == 17

\* Largest lane value of the vectors handed to merge and shift on their own.
MaxVal == 2

\* Largest depth of a network given to nnet_fwd.
MaxDepth == 3

\* Largest number of operators of a graph given to runNetwork.
MaxOps == 3

Lanes == 0 .. (VECTOR_SIZE - 1)

Units == 0 .. (SR_SIZE - 1)

ZeroVec == [l \in Lanes |-> 0]

ZeroReg == [u \in Units |-> ZeroVec]

min(x, y) == IF x < y THEN x ELSE y

FRAC_CEIL(x, y) == (x + y - 1) \div y

VARIABLES
    \* ---- convolution2d_smiv_1kernel_1channel_simd_fxp ----
    cv_pc,          \* position in the function: "off", "row", "col", "kern", "commit", "done"
    curr_layer,     \* the layer descriptor (layer_t), never changed by the call
    a,              \* the input plane  a[row][padded col]
    kernels,        \* the kernel plane kernels[row][padded col]
    result,         \* the result plane result[row][padded col]
    in_row, in_col, out_row, out_col, kern_row,
    dp0_iters, dp1_iters, total_outpx,
    psums_0, psums_1,
    \* history of the convolution, for the properties
    written,        \* written[row][col]: how many commits wrote result[row][col]
    last_commit,    \* the last commit: [row, col, n, cols] or the empty record
    last_dp,        \* the last datapath call: its arguments and its results
    last_load,      \* the last activation load: its indices and position 1
    \* ---- merge_psums_simd_fxp on its own ----
    mg_pc, mg_psums_0, mg_psums_1, mg_double_tp, mg_result, mg_prev,
    \* ---- shift_reg_simd_lshift / shift_regs_simd_lshift on their own ----
    sh_pc, sh_reg0, sh_reg1, sh_shamt, sh_single0, sh_single1, sh_pair0, sh_pair1,
    \* ---- nnet_fwd ----
    nn_pc,          \* position in nnet_fwd: "off", "loop", "done", "aborted"
    layers,         \* network.layers, with each layer's marker result_in_temp
    l, result_loc,
    bufs,           \* what the buffers activations.d and result.d hold
    calls,          \* history: the calls of run_layer, in order
    stored,         \* the buffer handed to the final dmaStore

    \* ---- runNetwork ----
    rn_pc,          \* position in runNetwork: "off", "sort", "loop", "done"
    graph,          \* the operator graph: n vertices 0 .. n-1 and its edges <<u, v>>
    vertices,       \* the std::list the sort fills
    ran,            \* history: the operators run, in order
    output          \* the tensor pointer: <<>> uninitialized, <<v>> output 0 of v

convVars == <<cv_pc, curr_layer, a, kernels, result, in_row, in_col, out_row,
              out_col, kern_row, dp0_iters, dp1_iters, total_outpx, psums_0,
              psums_1, written, last_commit, last_dp, last_load>>

mergeVars == <<mg_pc, mg_psums_0, mg_psums_1, mg_double_tp, mg_result, mg_prev>>

shiftVars == <<sh_pc, sh_reg0, sh_reg1, sh_shamt, sh_single0, sh_single1,
               sh_pair0, sh_pair1>>

nnVars == <<nn_pc, layers, l, result_loc, bufs, calls, stored>>

rnVars == <<rn_pc, graph, vertices, ran, output>>

vars == <<convVars, mergeVars, shiftVars, nnVars, rnVars>>

notConvVars == <<mergeVars, shiftVars, nnVars, rnVars>>

(***************************************************************************)
(* Shift registers (convolution_simd.c, lines 11-55).                      *)
(***************************************************************************)
\* The value one iteration of shift_reg_lshift assigns to lane sr, with the
\* source lane taken from the unit of the destination (sr0) instead of sr2.
shift_reg_lane_same_unit(shift_reg, sr, shamt) ==
    LET shidx == sr + shamt
        sr0 == sr \div VECTOR_SIZE
        sr3 == shidx % VECTOR_SIZE
    IN  IF shidx < SHIFT_REG_SIZE THEN shift_reg[sr0][sr3] ELSE 0

\* The value one iteration of shift_reg_lshift assigns to lane sr.
shift_reg_lane(shift_reg, sr, shamt) ==
    LET shidx == sr + shamt
        sr2 == shidx \div VECTOR_SIZE
        sr3 == shidx % VECTOR_SIZE
    IN  IF shidx < SHIFT_REG_SIZE THEN shift_reg[sr2][sr3] ELSE 0

RECURSIVE shift_reg_lshift(_, _, _)
\* The loop shift_reg_lshift from iteration sr on, in place on shift_reg.
shift_reg_lshift(shift_reg, shamt, sr) ==
    IF sr < SHIFT_REG_SIZE
    THEN LET sr0 == sr \div VECTOR_SIZE
             sr1 == sr % VECTOR_SIZE
         IN  shift_reg_lshift(
                 [shift_reg EXCEPT ![sr0][sr1] = shift_reg_lane(shift_reg, sr, shamt)],
                 shamt, sr + 1)
    ELSE shift_reg

shift_reg_simd_lshift(shift_reg, shamt) == shift_reg_lshift(shift_reg, shamt, 0)

RECURSIVE shift_regs_lshift(_, _, _, _)
\* The loop shift_regs_lshift from iteration sr on, in place on both
\* registers; the result is the pair <<shift_reg0, shift_reg1>>.
shift_regs_lshift(shift_reg0, shift_reg1, shamt, sr) ==
    IF sr < SHIFT_REG_SIZE
    THEN LET shidx == sr + shamt
             sr0 == sr \div VECTOR_SIZE
             sr1 == sr % VECTOR_SIZE
             sr2 == shidx \div VECTOR_SIZE
             sr3 == shidx % VECTOR_SIZE
         IN  IF shidx < SHIFT_REG_SIZE
             THEN shift_regs_lshift(
                      [shift_reg0 EXCEPT ![sr0][sr1] = shift_reg0[sr2][sr3]],
                      [shift_reg1 EXCEPT ![sr0][sr1] = shift_reg1[sr2][sr3]],
                      shamt, sr + 1)
             ELSE shift_regs_lshift(
                      [shift_reg0 EXCEPT ![sr0][sr1] = 0],
                      [shift_reg1 EXCEPT ![sr0][sr1] = 0],
                      shamt, sr + 1)
    ELSE <<shift_reg0, shift_reg1>>

shift_regs_simd_lshift(shift_reg0, shift_reg1, shamt) ==
    shift_regs_lshift(shift_reg0, shift_reg1, shamt, 0)

(***************************************************************************)
(* The multiply-accumulate datapath (convolution_simd.c, lines 57-96).     *)
(***************************************************************************)
RECURSIVE conv2d_dp_core(_, _, _, _, _)
\* The loop conv2d_dp_core for one pipe from lane j on: accum plus the dot
\* product of DATAPATH_WIDTH weights, from lane woff on, with unit 0 of the
\* pipe's shift register.
conv2d_dp_core(accum, weights_buffer, woff, pipe_shift_reg, j) ==
    IF j < DATAPATH_WIDTH
    THEN conv2d_dp_core(accum + weights_buffer[j + woff] * pipe_shift_reg[0][j],
                        weights_buffer, woff, pipe_shift_reg, j + 1)
    ELSE accum

\* The store to psums_tmp_1 without the test psum_reg < dp1_iters.
dp_store_psum1_always(psums_tmp_1, psum_reg, it1, accum_result_1) ==
    [psums_tmp_1 EXCEPT ![psum_reg] = accum_result_1]

\* if (psum_reg < dp1_iters) psums_tmp_1[psum_reg] = accum_result_1;
dp_store_psum1(psums_tmp_1, psum_reg, it1, accum_result_1) ==
    IF psum_reg < it1
    THEN [psums_tmp_1 EXCEPT ![psum_reg] = accum_result_1]
    ELSE psums_tmp_1

RECURSIVE conv2d_dp_outer(_, _, _, _, _, _, _, _, _)
\* The loop conv2d_dp_outer from iteration psum_reg on; the result holds the
\* two partial-sum vectors and the two shift registers as the loop leaves them.
conv2d_dp_outer(wb, p0, p1, dp_shamt, it0, it1, pt0, pt1, psum_reg) ==
    IF psum_reg < it0
    THEN LET accum_result_0 == conv2d_dp_core(pt0[psum_reg], wb, 0, p0, 0)
             accum_result_1 == conv2d_dp_core(pt1[psum_reg], wb, DATAPATH_WIDTH, p1, 0)
             shifted == shift_regs_simd_lshift(p0, p1, dp_shamt)
         IN  conv2d_dp_outer(wb, shifted[1], shifted[2], dp_shamt, it0, it1,
                             [pt0 EXCEPT ![psum_reg] = accum_result_0],
                             dp_store_psum1(pt1, psum_reg, it1, accum_result_1),
                             psum_reg + 1)
    ELSE [psums_0 |-> pt0, psums_1 |-> pt1, pipe0 |-> p0, pipe1 |-> p1]

conv_macc_datapath_simd_fxp(wb, p0, p1, dp_shamt, it0, it1, ps0, ps1) ==
    conv2d_dp_outer(wb, p0, p1, dp_shamt, it0, it1, ps0, ps1, 0)

(***************************************************************************)
(* The merge of the partial sums (convolution_simd.c, lines 99-122).       *)
(***************************************************************************)
\* The double-throughput loop with the two pipes' lanes in swapped places.
merge_psums_double_tp_swapped(p0, p1) ==
    [i \in Lanes |-> IF i % 2 = 0 THEN 0 + p1[i \div 2] ELSE 0 + p0[i \div 2]]

\* merge_psums_double_tp: result_tmp[2i] += psums_0[i], [2i+1] += psums_1[i],
\* for i < VECTOR_SIZE / 2, on a zero result_tmp.
merge_psums_double_tp(p0, p1) ==
    [i \in Lanes |-> IF i % 2 = 0 THEN 0 + p0[i \div 2] ELSE 0 + p1[i \div 2]]

\* merge_psums_single_tp: result_tmp[i] += psums_0[i] + psums_1[i].
merge_psums_single_tp(p0, p1) == [i \in Lanes |-> 0 + (p0[i] + p1[i])]

merge_psums_simd_fxp(p0, p1, double_tp) ==
    IF double_tp THEN merge_psums_double_tp(p0, p1) ELSE merge_psums_single_tp(p0, p1)

(***************************************************************************)
(* convolution2d_smiv_1kernel_1channel_simd_fxp (lines 136-300): the       *)
(* locals the function derives from the layer descriptor.                  *)
(***************************************************************************)
a_height == curr_layer.inputs.rows

a_width == curr_layer.inputs.cols

a_pad == curr_layer.inputs.align_pad

a_padded_width == a_width + a_pad

result_height == curr_layer.outputs.rows

result_width == curr_layer.outputs.cols

result_pad == curr_layer.outputs.align_pad

result_padded_width == result_width + result_pad

k_width == curr_layer.weights.cols

k_pad == curr_layer.weights.align_pad

k_stride == curr_layer.field_stride

k_padded_width == k_width + k_pad

row_stride == k_stride

col_stride == 1

double_tp == k_width < DATAPATH_WIDTH

\* The initial shift of pipe 1 taken as the stride in both modes.
init_shamt_stride == k_stride

init_shamt == IF double_tp THEN k_stride ELSE DATAPATH_WIDTH

dp_shamt == IF double_tp THEN k_stride * 2 ELSE k_stride

input_fetches_per_row == FRAC_CEIL(a_width, VECTOR_SIZE)

last_input_pixel_start_col == result_width * k_stride

has_boundary_case ==
    last_input_pixel_start_col > (input_fetches_per_row - 1) * VECTOR_SIZE

max_psums_per_act ==
    IF k_stride = 1 THEN (IF double_tp THEN DATAPATH_WIDTH ELSE DATAPATH_WIDTH * 2)
    ELSE IF k_stride = 2 THEN (IF double_tp THEN DATAPATH_WIDTH \div 2 ELSE DATAPATH_WIDTH)
    ELSE IF k_stride = 4 THEN DATAPATH_WIDTH \div 2
    ELSE 0

end_row == a_height - k_width + 1

end_col == IF has_boundary_case THEN input_fetches_per_row ELSE input_fetches_per_row - 1

end_kern == k_width

\* The marker one fetch past the last fetch of the row.
end_col_marker_past_row == input_fetches_per_row

end_col_marker == input_fetches_per_row - 1

\* VEC_ARRAY_4D(v8fp_t, _a, ...): the vector _a[img][chan][row][vec].
a_vec(row, vec) == [ln \in Lanes |-> a[row][vec * VECTOR_SIZE + ln]]

\* The vectors of the plane behind _a: a_height rows of
\* a_padded_width / VECTOR_SIZE vectors each.
in_plane(row, vec) ==
    /\ row \in 0 .. (a_height - 1)
    /\ vec \in 0 .. (a_padded_width \div VECTOR_SIZE - 1)

\* The read _a[img][chan][row][vec]: the vector of the plane, and outside the
\* plane whatever lies there (oob in every lane).
a_read(row, vec, oob) ==
    IF in_plane(row, vec) THEN a_vec(row, vec) ELSE [ln \in Lanes |-> oob]

\* VEC_ARRAY_4D(v8fp_t, _kernels, ...): the vector _kernels[kern][chan][row][vec].
kernels_vec(row, vec) == [ln \in Lanes |-> kernels[row][vec * VECTOR_SIZE + ln]]

\* "Compute schedule" (lines 203-216): the iterations of each pipe and the
\* output pixels of the group.
schedule(remaining_cols) ==
    IF double_tp
    THEN LET remaining_per_dp == remaining_cols \div 2
             remainder == remaining_cols % 2
             d0 == min(max_psums_per_act, remaining_per_dp + remainder)
             d1 == min(max_psums_per_act, remaining_per_dp)
         IN  [dp0 |-> d0, dp1 |-> d1, total |-> d0 + d1]
    ELSE LET remaining_per_dp == remaining_cols
             d0 == min(max_psums_per_act, remaining_per_dp)
             d1 == min(max_psums_per_act, remaining_per_dp)
         IN  [dp0 |-> d0, dp1 |-> d1, total |-> d0]

\* The shift registers after "Load activations into shift registers" (lines
\* 225-242): position 0 always, position 1 unless the boundary case holds at
\* the last fetch of the row.
load_activations(oob) ==
    LET act_temp == a_read(in_row + kern_row, in_col, oob)
    IN  IF ~(has_boundary_case /\ in_col = end_col_marker)
        THEN [u \in Units |-> IF u = 0 THEN act_temp
                              ELSE a_read(in_row + kern_row, in_col + 1, oob)]
        ELSE [u \in Units |-> IF u = 0 THEN act_temp ELSE ZeroVec]

\* Whether "Load activations into shift registers" loads position 1 (line 238).
loads_position1 == ~(has_boundary_case /\ in_col = end_col_marker)

\* The weights buffer after "Load weights into weights buffer" (lines 248-263).
load_weights ==
    LET wgt_temp == kernels_vec(kern_row, 0)
        bound == min(k_width, VECTOR_SIZE)
    IN  IF double_tp
        THEN [w \in Lanes |->
                 IF w < k_width THEN wgt_temp[w]
                 ELSE IF w >= DATAPATH_WIDTH /\ w - DATAPATH_WIDTH < k_width
                      THEN wgt_temp[w - DATAPATH_WIDTH]
                      ELSE 0]
        ELSE [w \in Lanes |-> IF w < bound THEN wgt_temp[w] ELSE 0]

\* The column conv2d_commit writes lane j of the merged vector to:
\* _result[chan][out_row][out_col / VECTOR_SIZE][j].
commit_col(j) == (out_col \div VECTOR_SIZE) * VECTOR_SIZE + j

(***************************************************************************)
(* The layer descriptors and the planes a call is made with.               *)
(***************************************************************************)
\* The alignment pad that makes a row of cols floats a whole number of vectors.
align_pad_of(cols) == FRAC_CEIL(cols, VECTOR_SIZE) * VECTOR_SIZE - cols

\* The output extent of an input extent n under a k-wide field and stride s
\* (no zero padding); a stride of 0 describes no output extent of its own and
\* is given that of stride 1.
out_extent(n, k, s) == IF s > 0 THEN (n - k) \div s + 1 ELSE n - k + 1

\* The descriptor of an h x w input convolved with a k x k kernel at stride s.
Descriptor(h, w, k, s) ==
    [inputs      |-> [rows |-> h, cols |-> w, align_pad |-> align_pad_of(w)],
     weights     |-> [cols |-> k, align_pad |-> align_pad_of(k)],
     outputs     |-> [rows |-> out_extent(h, k, s), cols |-> out_extent(w, k, s),
                      align_pad |-> align_pad_of(out_extent(w, k, s))],
     field_stride |-> s]

Descriptors ==
    { Descriptor(h, w, k, s) :
        <<h, w, k, s>> \in
          { q \in (1 .. (VECTOR_SIZE + MaxExtraRows)) \X (1 .. MaxWidth)
                  \X (1 .. VECTOR_SIZE) \X (0 .. MaxStride) :
              /\ q[3] <= q[2]
              /\ q[3] <= q[1]
              /\ q[1] <= q[3] + MaxExtraRows } }

\* What the alignment padding of a plane may hold.
PadFills == {0, 100}

\* Input planes of a descriptor: all pixels distinct, the padding filled.
InputPlanes(d) ==
    LET pw == d.inputs.cols + d.inputs.align_pad
    IN  { [r \in 0 .. (d.inputs.rows - 1) |->
             [c \in 0 .. (pw - 1) |->
                IF c < d.inputs.cols THEN 1 + r * pw + c ELSE fill]]
          : fill \in PadFills }

\* The kernel plane of a descriptor: all weights distinct, the padding filled.
KernelPlanes(d) ==
    LET k == d.weights.cols
        pw == k + d.weights.align_pad
    IN  { [r \in 0 .. (k - 1) |->
             [c \in 0 .. (pw - 1) |->
                IF c >= k THEN fill ELSE 1 + r * k + c]]
          : fill \in PadFills \ {0} }

\* What the loads may read: the plane alone when they stay in it, else
\* whatever lies outside it.
OutOfPlaneValues ==
    IF /\ in_plane(in_row + kern_row, in_col)
       /\ (loads_position1 => in_plane(in_row + kern_row, in_col + 1))
    THEN {0}
    ELSE PadFills

ZeroPlane(rows, cols) == [r \in 0 .. (rows - 1) |-> [c \in 0 .. (cols - 1) |-> 0]]

NoCommit == [row |-> 0, col |-> 0, n |-> 0, cols |-> {}]

NoDatapath == [it0 |-> 0, it1 |-> 0, wb |-> ZeroVec, pipe0 |-> ZeroReg, pipe1 |-> ZeroReg,
               pre0 |-> ZeroVec, pre1 |-> ZeroVec, post0 |-> ZeroVec, post1 |-> ZeroVec,
               shamt |-> 0]

NoLoad == [done |-> FALSE, row |-> 0, vec0 |-> 0, pos1 |-> FALSE, vec1 |-> 0,
           reg1 |-> ZeroVec]

\* The state at the entry of the function, before conv2d_row.
InitConv ==
    /\ curr_layer \in Descriptors
    /\ a \in InputPlanes(curr_layer)
    /\ kernels \in KernelPlanes(curr_layer)
    /\ result = ZeroPlane(result_height, result_padded_width)
    /\ written = ZeroPlane(result_height, result_padded_width)
    /\ cv_pc = "row"
    /\ in_row = 0 /\ in_col = 0 /\ out_row = 0 /\ out_col = 0 /\ kern_row = 0
    /\ dp0_iters = 0 /\ dp1_iters = 0 /\ total_outpx = 0
    /\ psums_0 = ZeroVec /\ psums_1 = ZeroVec
    /\ last_commit = NoCommit
    /\ last_dp = NoDatapath
    /\ last_load = NoLoad

\* The convolution is not part of the run.
OffConv ==
    /\ curr_layer = Descriptor(1, 1, 1, 1)
    /\ a = ZeroPlane(1, VECTOR_SIZE)
    /\ kernels = ZeroPlane(1, VECTOR_SIZE)
    /\ result = ZeroPlane(1, VECTOR_SIZE)
    /\ written = ZeroPlane(1, VECTOR_SIZE)
    /\ cv_pc = "off"
    /\ in_row = 0 /\ in_col = 0 /\ out_row = 0 /\ out_col = 0 /\ kern_row = 0
    /\ dp0_iters = 0 /\ dp1_iters = 0 /\ total_outpx = 0
    /\ psums_0 = ZeroVec /\ psums_1 = ZeroVec
    /\ last_commit = NoCommit
    /\ last_dp = NoDatapath
    /\ last_load = NoLoad

(***************************************************************************)
(* The steps of convolution2d_smiv_1kernel_1channel_simd_fxp.              *)
(***************************************************************************)
\* conv2d_row: the test in_row < end_row holds; the row starts at out_col = 0
\* and the column loop at in_col = 0.
conv2d_row ==
    /\ UNCHANGED notConvVars
    /\ cv_pc = "row"
    /\ in_row < end_row
    /\ out_col' = 0
    /\ in_col' = 0
    /\ cv_pc' = "col"
    /\ UNCHANGED <<curr_layer, a, kernels, result, in_row, out_row, kern_row,
                   dp0_iters, dp1_iters, total_outpx, psums_0, psums_1,
                   written, last_commit, last_dp, last_load>>

\* conv2d_row: the test in_row < end_row fails and the function returns.
conv2d_return ==
    /\ UNCHANGED notConvVars
    /\ cv_pc = "row"
    /\ ~(in_row < end_row)
    /\ cv_pc' = "done"
    /\ UNCHANGED <<curr_layer, a, kernels, result, in_row, in_col, out_row, out_col,
                   kern_row, dp0_iters, dp1_iters, total_outpx, psums_0, psums_1,
                   written, last_commit, last_dp, last_load>>

\* conv2d_col: the test in_col < end_col holds; the schedule of the group is
\* computed, the partial sums are zeroed and the kernel-row loop starts.
conv2d_col ==
    /\ UNCHANGED notConvVars
    /\ cv_pc = "col"
    /\ in_col < end_col
    /\ LET sch == schedule(result_width - out_col)
       IN  /\ dp0_iters' = sch.dp0
           /\ dp1_iters' = sch.dp1
           /\ total_outpx' = sch.total
    /\ psums_0' = ZeroVec
    /\ psums_1' = ZeroVec
    /\ kern_row' = 0
    /\ cv_pc' = "kern"
    /\ UNCHANGED <<curr_layer, a, kernels, result, in_row, in_col, out_row, out_col,
                   written, last_commit, last_dp, last_load>>

\* conv2d_col: the test in_col < end_col fails; out_row++ and the row loop
\* steps in_row by row_stride.
conv2d_row_step ==
    /\ UNCHANGED notConvVars
    /\ cv_pc = "col"
    /\ ~(in_col < end_col)
    /\ out_row < MaxOutRow
    /\ out_row' = out_row + 1
    /\ in_row' = in_row + row_stride
    /\ cv_pc' = "row"
    /\ UNCHANGED <<curr_layer, a, kernels, result, in_col, out_col, kern_row,
                   dp0_iters, dp1_iters, total_outpx, psums_0, psums_1,
                   written, last_commit, last_dp, last_load>>

\* conv2d_kern_row: one kernel row: load the activations and the weights,
\* shift pipe 1 by init_shamt, run the datapath.
conv2d_kern_row ==
    /\ UNCHANGED notConvVars
    /\ cv_pc = "kern"
    /\ kern_row < end_kern
    /\ \E oob \in OutOfPlaneValues :
       \E weights_buffer \in {load_weights}, pipe0_shift_reg \in {load_activations(oob)} :
       \E pipe1_shift_reg \in {shift_reg_simd_lshift(pipe0_shift_reg, init_shamt)} :
       \E dp \in {conv_macc_datapath_simd_fxp(weights_buffer, pipe0_shift_reg,
                                               pipe1_shift_reg, dp_shamt, dp0_iters,
                                               dp1_iters, psums_0, psums_1)} :
           /\ psums_0' = dp.psums_0
           /\ psums_1' = dp.psums_1
           /\ last_dp' = [it0 |-> dp0_iters, it1 |-> dp1_iters, wb |-> weights_buffer,
                          pipe0 |-> pipe0_shift_reg, pipe1 |-> pipe1_shift_reg,
                          pre0 |-> psums_0, pre1 |-> psums_1,
                          post0 |-> dp.psums_0, post1 |-> dp.psums_1,
                          shamt |-> dp_shamt]
           /\ last_load' = [done |-> TRUE, row |-> in_row + kern_row,
                            vec0 |-> in_col, pos1 |-> loads_position1,
                            vec1 |-> in_col + 1, reg1 |-> pipe0_shift_reg[1]]
    /\ kern_row' = kern_row + 1
    /\ UNCHANGED <<cv_pc, curr_layer, a, kernels, result, in_row, in_col, out_row,
                   out_col, dp0_iters, dp1_iters, total_outpx, written, last_commit>>

\* After the kernel rows: merge the partial sums, conv2d_commit the
\* total_outpx lanes, advance out_col (back to 0 at result_width) and step
\* the column loop by col_stride.
conv2d_commit ==
    /\ UNCHANGED notConvVars
    /\ cv_pc = "kern"
    /\ ~(kern_row < end_kern)
    /\ LET final_psums == merge_psums_simd_fxp(psums_0, psums_1, double_tp)
           cols == { commit_col(j) : j \in { x \in Lanes : x < total_outpx } }
       IN  /\ IF total_outpx > 0
              THEN /\ result' = [result EXCEPT ![out_row] =
                                   [c \in DOMAIN result[out_row] |->
                                      IF c \in cols
                                      THEN final_psums[c - (out_col \div VECTOR_SIZE) * VECTOR_SIZE]
                                      ELSE result[out_row][c]]]
                   /\ written' = [written EXCEPT ![out_row] =
                                   [c \in DOMAIN written[out_row] |->
                                      IF c \in cols THEN written[out_row][c] + 1
                                      ELSE written[out_row][c]]]
              ELSE UNCHANGED <<result, written>>
           /\ last_commit' = [row |-> out_row, col |-> out_col, n |-> total_outpx,
                              cols |-> cols]
    /\ out_col' = IF out_col + total_outpx >= result_width THEN 0
                  ELSE out_col + total_outpx
    /\ in_col' = in_col + col_stride
    /\ cv_pc' = "col"
    /\ UNCHANGED <<curr_layer, a, kernels, in_row, out_row, kern_row, dp0_iters,
                   dp1_iters, total_outpx, psums_0, psums_1, last_dp, last_load>>

(***************************************************************************)
(* Placeholders of the parts that are not part of a run.                   *)
(***************************************************************************)
OffMerge ==
    /\ mg_pc = "off"
    /\ mg_psums_0 = ZeroVec /\ mg_psums_1 = ZeroVec
    /\ mg_double_tp = FALSE
    /\ mg_result = ZeroVec
    /\ mg_prev = ZeroVec

OffShift ==
    /\ sh_pc = "off"
    /\ sh_reg0 = ZeroReg /\ sh_reg1 = ZeroReg
    /\ sh_shamt = 0
    /\ sh_single0 = ZeroReg /\ sh_single1 = ZeroReg
    /\ sh_pair0 = ZeroReg /\ sh_pair1 = ZeroReg

OffNnet ==
    /\ nn_pc = "off"
    /\ layers = <<>>
    /\ l = 0
    /\ result_loc = "activations"
    /\ bufs = [b \in {"activations", "result"} |-> <<>>]
    /\ calls = <<>>
    /\ stored = "none"

OffRun ==
    /\ rn_pc = "off"
    /\ graph = [n |-> 0, edges |-> {}]
    /\ vertices = <<>>
    /\ ran = <<>>
    /\ output = <<>>

(***************************************************************************)
(* The convolution: one call of                                            *)
(* convolution2d_smiv_1kernel_1channel_simd_fxp on any descriptor.         *)
(***************************************************************************)
ConvInit == InitConv /\ OffMerge /\ OffShift /\ OffNnet /\ OffRun

ConvNext ==
    \/ conv2d_row
    \/ conv2d_return
    \/ conv2d_col
    \/ conv2d_row_step
    \/ conv2d_kern_row
    \/ conv2d_commit

ConvSpec == ConvInit /\ [][ConvNext]_vars

(***************************************************************************)
(* Reference definitions for the properties of the convolution.            *)
(***************************************************************************)
RECURSIVE SumUpTo(_, _)
\* f[0] + ... + f[n - 1]
SumUpTo(f, n) == IF n = 0 THEN 0 ELSE f[n - 1] + SumUpTo(f, n - 1)

\* The scalar convolution at output (r, c): the sum over the k x k window at
\* (r * stride, c * stride) of input times weight.
RefConv(r, c) ==
    SumUpTo([q \in 0 .. (k_width * k_width - 1) |->
                a[r * k_stride + (q \div k_width)][c * k_stride + (q % k_width)]
                  * kernels[q \div k_width][q % k_width]],
            k_width * k_width)

\* Lane i of a shift register read as one flat array; 0 beyond its end.
FlatLane(reg, i) ==
    IF i < SHIFT_REG_SIZE THEN reg[i \div VECTOR_SIZE][i % VECTOR_SIZE] ELSE 0

\* The dot product of the DATAPATH_WIDTH weights from lane woff on with the
\* DATAPATH_WIDTH lanes of reg from flat lane start on.
WindowDot(wb, woff, reg, start) ==
    SumUpTo([j \in 0 .. (DATAPATH_WIDTH - 1) |-> wb[j + woff] * FlatLane(reg, start + j)],
            DATAPATH_WIDTH)

SupportedStride == k_stride \in {1, 2, 4}

\* C1: for stride 1, when the function has returned, every result[r][c] with
\* r < outputs.rows and c < outputs.cols has been written and holds the
\* reference scalar convolution sum of a[r+i][c+j] * kernel[i][j], in both
\* throughput modes and for every input width.
C1_Stride1MatchesReference ==
    (cv_pc = "done" /\ k_stride = 1) =>
        \A r \in 0 .. (result_height - 1) : \A c \in 0 .. (result_width - 1) :
            /\ written[r][c] >= 1
            /\ result[r][c] = RefConv(r, c)

\* A stride-1 call has returned on a double-throughput layer with several
\* output rows, an input width that is no multiple of VECTOR_SIZE and an odd
\* output width that takes more than one column group.
C1_Witness ==
    /\ cv_pc = "done" /\ k_stride = 1
    /\ double_tp
    /\ a_width % VECTOR_SIZE # 0
    /\ result_width % 2 = 1 /\ result_width > VECTOR_SIZE
    /\ result_height >= 2
    /\ \A r \in 0 .. (result_height - 1) : \A c \in 0 .. (result_width - 1) :
            result[r][c] = RefConv(r, c) /\ result[r][c] > 0

\* C2: for every supported stride, each group commits its total_outpx lanes
\* to the columns out_col .. out_col + total_outpx - 1 of the current row,
\* and once a row is processed every column below outputs.cols has been
\* written exactly once.
C2_CommitAtOutputColumnOffset ==
    SupportedStride =>
        /\ last_commit.cols = { last_commit.col + j : j \in 0 .. (last_commit.n - 1) }
        /\ (cv_pc \in {"row", "done"} /\ out_row >= 1) =>
              \A c \in 0 .. (result_width - 1) : written[out_row - 1][c] = 1

\* C3: with a field stride outside {1, 2, 4} the function never returns
\* normally.
C3_UnsupportedStrideNeverReturns ==
    ~SupportedStride => cv_pc # "done"

\* C9: the loops run a number of iterations bounded by the descriptor's
\* dimensions, for every field stride: the row loop (out_row counts its
\* iterations) at most inputs.rows times, the column loop at most once per
\* input fetch of a row, the kernel-row loop at most k_width times.
C9_LoopsBoundedByDimensions ==
    cv_pc # "off" =>
        /\ out_row <= a_height
        /\ in_col <= input_fetches_per_row
        /\ kern_row <= k_width

\* C10: in every column group dp1_iters <= dp0_iters <= dp1_iters + 1; in
\* double-throughput mode total_outpx = dp0_iters + dp1_iters is at most the
\* remaining columns (the odd one goes to pipe 0), in single-throughput mode
\* dp0_iters = dp1_iters = total_outpx; and a datapath call adds a window dot
\* product to exactly the lanes below dp0_iters of psums_0 and below dp1_iters
\* of psums_1, leaving every other partial-sum lane as it was.
C10_ScheduleAndDatapathLanes ==
    /\ cv_pc = "kern" =>
          /\ dp1_iters <= dp0_iters
          /\ dp0_iters <= dp1_iters + 1
          /\ double_tp => /\ total_outpx = dp0_iters + dp1_iters
                          /\ total_outpx <= result_width - out_col
          /\ ~double_tp => (dp0_iters = total_outpx /\ dp1_iters = total_outpx)
    /\ \A i \in Lanes :
          /\ last_dp.post0[i] =
                IF i < last_dp.it0
                THEN last_dp.pre0[i]
                       + WindowDot(last_dp.wb, 0, last_dp.pipe0, i * last_dp.shamt)
                ELSE last_dp.pre0[i]
          /\ last_dp.post1[i] =
                IF i < last_dp.it1
                THEN last_dp.pre1[i]
                       + WindowDot(last_dp.wb, DATAPATH_WIDTH, last_dp.pipe1, i * last_dp.shamt)
                ELSE last_dp.pre1[i]

\* A datapath call in double-throughput mode with an odd remainder: pipe 0
\* ran one iteration more than pipe 1 and changed the lane pipe 1 left alone.
C10_Witness ==
    /\ cv_pc = "kern" /\ kern_row >= 1
    /\ double_tp
    /\ last_dp.it0 = last_dp.it1 + 1
    /\ last_dp.post0[last_dp.it1] # last_dp.pre0[last_dp.it1]
    /\ last_dp.post1[last_dp.it1] = last_dp.pre1[last_dp.it1]
    /\ last_dp.it1 >= 1
    /\ last_dp.post1[0] # last_dp.pre1[0]

\* The fetches of a row of the descriptor: ceil(inputs.cols / VECTOR_SIZE).
FetchesPerRow == FRAC_CEIL(curr_layer.inputs.cols, VECTOR_SIZE)

\* The boundary case of the descriptor.
BoundaryCase ==
    curr_layer.outputs.cols * curr_layer.field_stride
        > (FetchesPerRow - 1) * VECTOR_SIZE

\* C11: for a supported stride and a padded input width that is a multiple
\* of VECTOR_SIZE and at least the logical width, every activation load stays
\* in the padded input plane: its row in_row + kern_row is below inputs.rows,
\* its position-0 vector index in_col and, when position 1 is loaded, its
\* position-1 vector index in_col + 1 are below ceil(inputs.cols /
\* VECTOR_SIZE); in the boundary case the load of the final column group of
\* a row skips position 1 and leaves the position-1 register zero.
C11_LoadsStayInPaddedPlane ==
    ( /\ SupportedStride
      /\ a_padded_width % VECTOR_SIZE = 0
      /\ a_padded_width >= curr_layer.inputs.cols
      /\ last_load.done )
    => /\ last_load.row < curr_layer.inputs.rows
       /\ last_load.vec0 < FetchesPerRow
       /\ last_load.pos1 => last_load.vec1 < FetchesPerRow
       /\ in_plane(last_load.row, last_load.vec0)
       /\ last_load.pos1 => in_plane(last_load.row, last_load.vec1)
       /\ (BoundaryCase /\ last_load.vec0 = FetchesPerRow - 1)
             => (~last_load.pos1 /\ last_load.reg1 = ZeroVec)

\* A stride-2 load in the boundary case at the final column group of a row
\* of several fetches, below the first row: position 1 is skipped and zero.
C11_Witness ==
    /\ last_load.done
    /\ k_stride = 2
    /\ BoundaryCase
    /\ FetchesPerRow >= 2
    /\ last_load.vec0 = FetchesPerRow - 1
    /\ last_load.row >= 1
    /\ ~last_load.pos1
    /\ last_load.reg1 = ZeroVec

(***************************************************************************)
(* merge_psums_simd_fxp on its own: called twice on the same arguments.    *)
(***************************************************************************)
\* Vectors with one lane of any value on a flat ground, and a ramp.
Vectors ==
    { [ln \in Lanes |-> IF ln = i THEN v ELSE b] :
        i \in Lanes, v \in 0 .. MaxVal, b \in 0 .. 1 }
      \cup { [ln \in Lanes |-> ln + 1] }

InitMerge ==
    /\ mg_pc = "call"
    /\ mg_psums_0 \in Vectors
    /\ mg_psums_1 \in Vectors
    /\ mg_double_tp \in BOOLEAN
    /\ mg_result = ZeroVec
    /\ mg_prev = ZeroVec

notMergeVars == <<convVars, shiftVars, nnVars, rnVars>>

\* The first call of merge_psums_simd_fxp(psums_0, psums_1, double_tp).
merge_call ==
    /\ UNCHANGED notMergeVars
    /\ mg_pc = "call"
    /\ mg_result' = merge_psums_simd_fxp(mg_psums_0, mg_psums_1, mg_double_tp)
    /\ mg_pc' = "called"
    /\ UNCHANGED <<mg_psums_0, mg_psums_1, mg_double_tp, mg_prev>>

\* A second call with the same arguments; the first result is kept in mg_prev.
merge_call_again ==
    /\ UNCHANGED notMergeVars
    /\ mg_pc = "called"
    /\ mg_prev' = mg_result
    /\ mg_result' = merge_psums_simd_fxp(mg_psums_0, mg_psums_1, mg_double_tp)
    /\ mg_pc' = "called twice"
    /\ UNCHANGED <<mg_psums_0, mg_psums_1, mg_double_tp>>

MergeInit == OffConv /\ InitMerge /\ OffShift /\ OffNnet /\ OffRun

MergeNext ==
    \/ merge_call
    \/ merge_call_again

MergeSpec == MergeInit /\ [][MergeNext]_vars

\* C7: with double_tp false lane i of the result is psums_0[i] + psums_1[i]
\* for every lane; with double_tp true lane 2i is psums_0[i] and lane 2i+1 is
\* psums_1[i] for i < VECTOR_SIZE / 2, so the upper halves of the arguments
\* play no part; a second call with the same arguments gives the same result.
C7_MergeLanes ==
    /\ mg_pc \in {"called", "called twice"} =>
          IF mg_double_tp
          THEN \A i \in 0 .. (VECTOR_SIZE \div 2 - 1) :
                  /\ mg_result[2 * i] = mg_psums_0[i]
                  /\ mg_result[2 * i + 1] = mg_psums_1[i]
          ELSE \A i \in Lanes : mg_result[i] = mg_psums_0[i] + mg_psums_1[i]
    /\ mg_pc = "called twice" => mg_result = mg_prev

\* A double-throughput merge was made twice on arguments whose upper halves
\* are not zero and differ from each other.
C7_Witness ==
    /\ mg_pc = "called twice"
    /\ mg_double_tp
    /\ mg_psums_0[VECTOR_SIZE - 1] # 0
    /\ mg_psums_1[VECTOR_SIZE - 1] # mg_psums_0[VECTOR_SIZE - 1]
    /\ mg_result[0] = mg_psums_0[0]
    /\ mg_result[1] = mg_psums_1[0]
    /\ mg_result[0] # mg_result[1]

(***************************************************************************)
(* shift_reg_simd_lshift and shift_regs_simd_lshift on their own: the same *)
(* two registers shifted one by one and as a pair.                         *)
(***************************************************************************)
\* Shift registers holding a ramp over their SHIFT_REG_SIZE flat lanes, or a
\* single 1.
Registers ==
    { [u \in Units |-> [ln \in Lanes |-> u * VECTOR_SIZE + ln + 1 + o]] : o \in 0 .. MaxVal }
      \cup { [u \in Units |-> [ln \in Lanes |-> IF u * VECTOR_SIZE + ln = i THEN 1 ELSE 0]] :
               i \in 0 .. (SHIFT_REG_SIZE - 1) }

InitShift ==
    /\ sh_pc = "call"
    /\ sh_reg0 \in Registers
    /\ sh_reg1 \in Registers
    /\ sh_shamt \in 0 .. MaxShamt
    /\ sh_single0 = ZeroReg /\ sh_single1 = ZeroReg
    /\ sh_pair0 = ZeroReg /\ sh_pair1 = ZeroReg

notShiftVars == <<convVars, mergeVars, nnVars, rnVars>>

\* shift_reg_simd_lshift on a copy of each register.
shift_single_call ==
    /\ UNCHANGED notShiftVars
    /\ sh_pc = "call"
    /\ sh_single0' = shift_reg_simd_lshift(sh_reg0, sh_shamt)
    /\ sh_single1' = shift_reg_simd_lshift(sh_reg1, sh_shamt)
    /\ sh_pc' = "single"
    /\ UNCHANGED <<sh_reg0, sh_reg1, sh_shamt, sh_pair0, sh_pair1>>

\* shift_regs_simd_lshift on a copy of the two registers.
shift_pair_call ==
    /\ UNCHANGED notShiftVars
    /\ sh_pc = "single"
    /\ \E shifted \in {shift_regs_simd_lshift(sh_reg0, sh_reg1, sh_shamt)} :
          /\ sh_pair0' = shifted[1]
          /\ sh_pair1' = shifted[2]
    /\ sh_pc' = "paired"
    /\ UNCHANGED <<sh_reg0, sh_reg1, sh_shamt, sh_single0, sh_single1>>

ShiftInit == OffConv /\ OffMerge /\ InitShift /\ OffNnet /\ OffRun

ShiftNext ==
    \/ shift_single_call
    \/ shift_pair_call

ShiftSpec == ShiftInit /\ [][ShiftNext]_vars

\* reg is pre shifted left by k as one flat array of SHIFT_REG_SIZE lanes.
IsFlatShift(reg, pre, k) ==
    \A i \in 0 .. (SHIFT_REG_SIZE - 1) :
        reg[i \div VECTOR_SIZE][i % VECTOR_SIZE] =
            IF i + k < SHIFT_REG_SIZE
            THEN pre[(i + k) \div VECTOR_SIZE][(i + k) % VECTOR_SIZE]
            ELSE 0

\* C8: after a shift by k lane i of the flat register holds the old lane i+k
\* when i+k < SHIFT_REG_SIZE and 0 otherwise; a shift by 0 changes nothing, a
\* shift by SHIFT_REG_SIZE or more leaves zeros only, and the paired function
\* leaves each register as the single-register function does.
C8_FlatLeftShift ==
    /\ sh_pc \in {"single", "paired"} =>
          /\ IsFlatShift(sh_single0, sh_reg0, sh_shamt)
          /\ IsFlatShift(sh_single1, sh_reg1, sh_shamt)
          /\ sh_shamt = 0 => (sh_single0 = sh_reg0 /\ sh_single1 = sh_reg1)
          /\ sh_shamt >= SHIFT_REG_SIZE => (sh_single0 = ZeroReg /\ sh_single1 = ZeroReg)
    /\ sh_pc = "paired" =>
          /\ sh_pair0 = sh_single0
          /\ sh_pair1 = sh_single1
          /\ IsFlatShift(sh_pair0, sh_reg0, sh_shamt)
          /\ IsFlatShift(sh_pair1, sh_reg1, sh_shamt)

\* Two different registers were shifted, one by one and as a pair, by an
\* amount that moves lanes of the second vector unit into the first.
C8_Witness ==
    /\ sh_pc = "paired"
    /\ sh_shamt > 0 /\ sh_shamt < VECTOR_SIZE
    /\ sh_reg0 # sh_reg1
    /\ sh_pair0[0][VECTOR_SIZE - 1] = sh_reg0[1][sh_shamt - 1]
    /\ sh_pair0[0][VECTOR_SIZE - 1] # 0
    /\ sh_pair1[0][0] = sh_reg1[0][sh_shamt]
    /\ sh_pair1[0][0] # 0
    /\ sh_pair0[1][VECTOR_SIZE - 1] = 0

(***************************************************************************)
(* arch/smiv.c: the layer handlers and nnet_fwd.  A buffer is named        *)
(* "activations" or "result"; what it holds is the sequence of the steps   *)
(* that produced it from the network input: 0 for copy_zeropad, lnum + 1   *)
(* for the kernel of layer lnum.                                           *)
(***************************************************************************)
Buffers == {"activations", "result"}

\* inner_product_layer (lines 43-54): the kernel reads act (activations),
\* writes res (result); res is returned.
inner_product_layer(bf, act, lnum, res) ==
    [ok |-> TRUE, ret |-> res,
     bufs |-> [bf EXCEPT ![res] = Append(bf[act], lnum + 1)]]

\* convolution_layer returning res on the zero-padding path as well.
convolution_layer_returns_result(bf, act, lnum, res) ==
    IF layers[lnum].c_padding > 0
    THEN LET padded == [bf EXCEPT ![res] = Append(bf[act], 0)]
         IN  [ok |-> TRUE, ret |-> res,
              bufs |-> [padded EXCEPT ![act] = Append(padded[res], lnum + 1)]]
    ELSE [ok |-> TRUE, ret |-> res,
          bufs |-> [bf EXCEPT ![res] = Append(bf[act], lnum + 1)]]

\* convolution_layer (lines 68-95): with c_padding > 0 the zero-padded input
\* is written to res, the kernel reads res and writes act, and
\* act is returned; otherwise as inner_product_layer.
convolution_layer(bf, act, lnum, res) ==
    IF layers[lnum].c_padding > 0
    THEN LET padded == [bf EXCEPT ![res] = Append(bf[act], 0)]
         IN  [ok |-> TRUE, ret |-> act,
              bufs |-> [padded EXCEPT ![act] = Append(padded[res], lnum + 1)]]
    ELSE [ok |-> TRUE, ret |-> res,
          bufs |-> [bf EXCEPT ![res] = Append(bf[act], lnum + 1)]]

\* pooling_layer (lines 98-109): max pooling from act to res; any
\* other pooling type fails the assertion.
pooling_layer(bf, act, lnum, res) ==
    IF layers[lnum].pool = "MAX"
    THEN [ok |-> TRUE, ret |-> res,
          bufs |-> [bf EXCEPT ![res] = Append(bf[act], lnum + 1)]]
    ELSE [ok |-> FALSE, ret |-> res, bufs |-> bf]

\* run_layer_skip_activation_func: the handler of the layer's type.
run_layer_skip_activation_func(bf, act, layer_num, res) ==
    IF layers[layer_num].type = "CONV"
    THEN convolution_layer(bf, act, layer_num, res)
    ELSE IF layers[layer_num].type = "POOLING"
    THEN pooling_layer(bf, act, layer_num, res)
    ELSE inner_product_layer(bf, act, layer_num, res)

\* run_layer (lines 111-123).
run_layer(bf, act, layer_num, res) ==
    run_layer_skip_activation_func(bf, act, layer_num, res)

\* The buffer nnet_fwd_outer reads from, taken from the parity of l.
nnet_fwd_source_by_parity == IF l % 2 = 1 THEN "result" ELSE "activations"

\* The buffer nnet_fwd_outer hands to run_layer as its input (lines 160-166).
nnet_fwd_source == IF result_loc = "result" THEN "result" ELSE "activations"

\* The buffer nnet_fwd_outer hands to run_layer as its output (lines 160-166).
nnet_fwd_destination == IF nnet_fwd_source = "result" THEN "activations" ELSE "result"

\* The layers a network is made of.
LayerKinds ==
    { [type |-> "CONV", c_padding |-> 0, pool |-> "NONE", result_in_temp |-> FALSE],
      [type |-> "CONV", c_padding |-> 1, pool |-> "NONE", result_in_temp |-> FALSE],
      [type |-> "FC", c_padding |-> 0, pool |-> "NONE", result_in_temp |-> FALSE],
      [type |-> "POOLING", c_padding |-> 0, pool |-> "MAX", result_in_temp |-> FALSE],
      [type |-> "POOLING", c_padding |-> 0, pool |-> "AVG", result_in_temp |-> FALSE] }

\* nnet_fwd up to its loop (lines 129-150): the input is in activations.
InitNnet ==
    /\ nn_pc = "loop"
    /\ layers \in UNION { [0 .. (d - 1) -> LayerKinds] : d \in 1 .. MaxDepth }
    /\ l = 0
    /\ result_loc = "activations"
    /\ bufs = [b \in Buffers |-> <<>>]
    /\ calls = <<>>
    /\ stored = "none"

depth == Cardinality(DOMAIN layers)

notNnVars == <<convVars, mergeVars, shiftVars, rnVars>>

\* nnet_fwd_outer: one iteration, a call of run_layer that returns.
nnet_fwd_outer ==
    /\ UNCHANGED notNnVars
    /\ nn_pc = "loop"
    /\ l < depth
    /\ \E r \in {run_layer(bufs, nnet_fwd_source, l, nnet_fwd_destination)} :
          /\ r.ok
          /\ result_loc' = r.ret
          /\ bufs' = r.bufs
          /\ calls' = Append(calls, [lnum |-> l, in |-> nnet_fwd_source,
                                     out |-> nnet_fwd_destination, ret |-> r.ret,
                                     read |-> bufs[nnet_fwd_source]])
    /\ l' = l + 1
    /\ UNCHANGED <<nn_pc, layers, stored>>

\* nnet_fwd_outer: one iteration whose run_layer fails an assertion.
nnet_fwd_abort ==
    /\ UNCHANGED notNnVars
    /\ nn_pc = "loop"
    /\ l < depth
    /\ ~run_layer(bufs, nnet_fwd_source, l, nnet_fwd_destination).ok
    /\ nn_pc' = "aborted"
    /\ UNCHANGED <<layers, l, result_loc, bufs, calls, stored>>

\* After the loop (lines 169-176): the marker of the last layer is set and
\* the buffer result_loc names is stored.
nnet_fwd_finish ==
    /\ UNCHANGED notNnVars
    /\ nn_pc = "loop"
    /\ ~(l < depth)
    /\ layers' = [layers EXCEPT ![depth - 1].result_in_temp = (result_loc = "result")]
    /\ stored' = IF result_loc = "result" THEN "result" ELSE "activations"
    /\ nn_pc' = "done"
    /\ UNCHANGED <<l, result_loc, bufs, calls>>

NnetInit == OffConv /\ OffMerge /\ OffShift /\ InitNnet /\ OffRun

NnetNext ==
    \/ nnet_fwd_outer
    \/ nnet_fwd_abort
    \/ nnet_fwd_finish

NnetSpec == NnetInit /\ [][NnetNext]_vars

RECURSIVE ForwardPass(_)
\* What the forward pass through the layers 0 .. n - 1 makes of the input.
ForwardPass(n) ==
    IF n = 0 THEN <<>>
    ELSE IF layers[n - 1].type = "CONV" /\ layers[n - 1].c_padding > 0
         THEN ForwardPass(n - 1) \o <<0, n>>
         ELSE Append(ForwardPass(n - 1), n)

Other(b) == IF b = "result" THEN "activations" ELSE "result"

\* C4: after nnet_fwd the marker result_in_temp of the last layer is true
\* exactly when the last run_layer returned the result buffer, which then
\* holds the output of the last layer, and false exactly when it returned
\* the activations buffer, which then holds it.
C4_MarkerNamesOutputBuffer ==
    nn_pc = "done" =>
        LET marker == layers[depth - 1].result_in_temp
            last == calls[Len(calls)]
        IN  /\ Len(calls) = depth
            /\ marker <=> last.ret = "result"
            /\ ~marker <=> last.ret = "activations"
            /\ marker => bufs["result"] = ForwardPass(depth)
            /\ ~marker => bufs["activations"] = ForwardPass(depth)
            /\ stored = last.ret

\* nnet_fwd has run a network whose last layer is a zero-padding convolution
\* that received the activations buffer as input and returned it.
C4_Witness ==
    /\ nn_pc = "done"
    /\ depth >= 2
    /\ layers[depth - 1].type = "CONV" /\ layers[depth - 1].c_padding > 0
    /\ calls[depth].in = "activations" /\ calls[depth].ret = "activations"
    /\ ~layers[depth - 1].result_in_temp
    /\ bufs["activations"] = ForwardPass(depth)

\* C5 as stated: for consecutive layers the input of the later call is the
\* output argument of the earlier call and its output is the earlier input.
C5_BuffersSwapEachIteration ==
    \A i \in 1 .. (Len(calls) - 1) :
        /\ calls[i + 1].in = calls[i].out
        /\ calls[i + 1].out = calls[i].in

\* C5 as amended: the input of the later call is the buffer the earlier call
\* returned, holding the earlier layer's output, and its output is the other
\* buffer; the roles swap exactly when the earlier call returned its output
\* argument, that is unless the earlier layer is a zero-padding convolution.
C5_NextLayerReadsReturnedBuffer ==
    /\ \A i \in 1 .. (Len(calls) - 1) :
          /\ calls[i + 1].in = calls[i].ret
          /\ calls[i + 1].out = Other(calls[i].ret)
          /\ calls[i + 1].read = ForwardPass(i)
          /\ (calls[i + 1].in = calls[i].out /\ calls[i + 1].out = calls[i].in)
                <=> ~(layers[i - 1].type = "CONV" /\ layers[i - 1].c_padding > 0)
    /\ Len(calls) >= 1 => (calls[1].in = "activations" /\ calls[1].out = "result")

\* Three layers have run, the second a zero-padding convolution: the third
\* was handed the same buffers as the second.
C5_Witness ==
    /\ Len(calls) = 3
    /\ layers[1].type = "CONV" /\ layers[1].c_padding > 0
    /\ calls[2].in = "result" /\ calls[2].out = "activations" /\ calls[2].ret = "result"
    /\ calls[3].in = "result" /\ calls[3].out = "activations"
    /\ calls[3].read = ForwardPass(2)

(***************************************************************************)
(* core/scheduler.h: runNetwork.                                           *)
(***************************************************************************)
RECURSIVE IsAcyclic(_, _)
\* No cycle among the vertices V under the edges E: sources can be peeled
\* off until nothing is left.
IsAcyclic(V, E) ==
    IF V = {} THEN TRUE
    ELSE LET sources == { v \in V : \A u \in V : <<u, v>> \notin E }
         IN  IF sources = {} THEN FALSE ELSE IsAcyclic(V \ sources, E)

\* The dependency graphs of a network: directed and acyclic.
Graphs ==
    UNION { { [n |-> n, edges |-> E] :
                E \in { F \in SUBSET { e \in (0 .. (n - 1)) \X (0 .. (n - 1)) : e[1] # e[2] } :
                          IsAcyclic(0 .. (n - 1), F) } }
            : n \in 1 .. MaxOps }

\* The vertex appended at the back of the list.
back_inserter(list, u) == Append(list, u)

\* std::front_inserter(vertices): the vertex is pushed at the front.
front_inserter(list, u) == <<u>> \o list

RECURSIVE dfs_visit(_, _, _, _)
\* The depth-first visit of u that topological_sort makes: out-edges from
\* target next on, in the order of their targets; u is written to the
\* output iterator when it is finished.  st = [seen, list].
dfs_visit(g, u, next, st) ==
    IF next >= g.n
    THEN [seen |-> st.seen, list |-> front_inserter(st.list, u)]
    ELSE IF <<u, next>> \in g.edges /\ next \notin st.seen
         THEN dfs_visit(g, u, next + 1,
                        dfs_visit(g, next, 0,
                                  [seen |-> st.seen \cup {next}, list |-> st.list]))
         ELSE dfs_visit(g, u, next + 1, st)

RECURSIVE dfs_roots(_, _, _)
\* The depth-first search over every vertex not seen yet, from vertex u on.
dfs_roots(g, u, st) ==
    IF u >= g.n THEN st
    ELSE IF u \in st.seen THEN dfs_roots(g, u + 1, st)
    ELSE dfs_roots(g, u + 1,
                   dfs_visit(g, u, 0, [seen |-> st.seen \cup {u}, list |-> st.list]))

\* boost::topological_sort(graph, std::front_inserter(vertices)) (line 17).
topological_sort(g) == dfs_roots(g, 0, [seen |-> {}, list |-> <<>>]).list

InitRun ==
    /\ rn_pc = "sort"
    /\ graph \in Graphs
    /\ vertices = <<>>
    /\ ran = <<>>
    /\ output = <<>>

notRnVars == <<convVars, mergeVars, shiftVars, nnVars>>

\* Lines 15-18: the list of vertices is built.
runNetwork_sort ==
    /\ UNCHANGED notRnVars
    /\ rn_pc = "sort"
    /\ vertices' = topological_sort(graph)
    /\ rn_pc' = "loop"
    /\ UNCHANGED <<graph, ran, output>>

\* Lines 19-25: the next vertex of the list: its operator runs and output
\* becomes its output 0.
runNetwork_run ==
    /\ UNCHANGED notRnVars
    /\ rn_pc = "loop"
    /\ Len(ran) < Len(vertices)
    /\ ran' = Append(ran, vertices[Len(ran) + 1])
    /\ output' = <<vertices[Len(ran) + 1]>>
    /\ UNCHANGED <<rn_pc, graph, vertices>>

\* Line 26: the list is exhausted and output is returned.
runNetwork_return ==
    /\ UNCHANGED notRnVars
    /\ rn_pc = "loop"
    /\ ~(Len(ran) < Len(vertices))
    /\ rn_pc' = "done"
    /\ UNCHANGED <<graph, vertices, ran, output>>

RunInit == OffConv /\ OffMerge /\ OffShift /\ OffNnet /\ InitRun

RunNext ==
    \/ runNetwork_sort
    \/ runNetwork_run
    \/ runNetwork_return

RunSpec == RunInit /\ [][RunNext]_vars

\* The places of operator v in the run.
RunsOf(v) == { i \in 1 .. Len(ran) : ran[i] = v }

\* C6: runNetwork runs every operator exactly once, for every edge u -> v it
\* runs u before v, and the tensor it returns is output 0 of the operator it
\* ran last.
C6_EachOperatorOnceInDependencyOrder ==
    /\ \A v \in 0 .. (graph.n - 1) : Cardinality(RunsOf(v)) <= 1
    /\ \A e \in graph.edges :
          RunsOf(e[2]) # {} =>
              \E i \in RunsOf(e[1]) : \A j \in RunsOf(e[2]) : i < j
    /\ rn_pc = "done" =>
          /\ \A v \in 0 .. (graph.n - 1) : Cardinality(RunsOf(v)) = 1
          /\ Len(ran) = graph.n
          /\ output = <<ran[Len(ran)]>>

\* runNetwork has returned on a graph of three operators in which operator 0
\* depends on operator 2, so that the run is not in the order of the indices.
C6_Witness ==
    /\ rn_pc = "done"
    /\ graph.n = 3
    /\ <<2, 0>> \in graph.edges /\ <<1, 2>> \in graph.edges
    /\ ran = <<1, 2, 0>>
    /\ output = <<0>>

====
